---- MODULE Spec2Model ----
(***************************************************************************)
(* Model of app/services/cache_service.py: CacheService, the content-      *)
(* addressed cache of document chunks and embeddings.  The state is the    *)
(* directory tree below cache_dir; the operations are the public methods   *)
(* of CacheService.                                                        *)
(***************************************************************************)
EXTENDS Integers, Sequences, FiniteSets, TLC

\* ------------------------------------------------------------------ bounds
\* longest chunk list / embedding list handed to save_chunks_and_embeddings
MaxLen == 2
\* external mutations of the cache tree in one behaviour (SpecExt)
MaxExternal == 1
\* save calls begun in one behaviour of the interleaved model (SpecConc)
MaxCalls == 2
\* the blocks of a document file
MaxBlocks == 2

\* ------------------------------------------------------------------ values
\* document identities (two SHA-256 digests)
Ids == {"a", "b"}
\* the doc_id arguments clear_cache accepts besides an identity
EmptyId == ""
NoneId == "<None>"

\* A chunk record / a metadata mapping, by how json treats it: "text" holds
\* only JSON-native values, "tuple" holds a Python tuple.  "list" is what
\* json.load gives back for an array.
ChunkVals == {"text", "tuple"}
MetaVals == {"text", "tuple"}
\* An embedding row, as a double: even numbers are representable in float32,
\* odd ones are not.  The i-th row of an input is 1, 2, 1, 2, ...
EmbRow(i) == IF i % 2 = 1 THEN 1 ELSE 2

SeqsUpTo(S, n) == UNION {[1..k -> S] : k \in 0..n}
\* the lists over S of length at most n in which neighbours differ (so that
\* the order of a list is visible)
Alternating(S, n) ==
    {s \in SeqsUpTo(S, n) : \A i \in 1..(Len(s) - 1) : s[i] # s[i + 1]}
ChunkInputs == Alternating(ChunkVals, MaxLen)
EmbInputs == {[i \in 1..k |-> EmbRow(i)] : k \in 0..MaxLen}
\* inputs that hold JSON-native values and float32-representable rows only
PlainChunkInputs == SeqsUpTo({"text"}, MaxLen)
PlainEmbInputs == SeqsUpTo({2}, MaxLen)

\* ------------------------------------------------------------- conversions
\* json.dump followed by json.load of one value: a tuple is written as an
\* array and read back as a list.
json_roundtrip(v) == IF v = "tuple" THEN "list" ELSE v
\* json.dump(chunks, f): the JSON document written for a list of chunks,
\* named by the value json.load reads from it.
json_dump_list(c) == [i \in 1..Len(c) |-> json_roundtrip(c[i])]
\* variant: np.array(embeddings) without the dtype
np_array_float64(e) == e

\* np.array(embeddings, dtype=np.float32): each row rounded to float32.
float32(v) == v - (v % 2)
np_array_float32(e) == [i \in 1..Len(e) |-> float32(e[i])]

\* ------------------------------------------------------------- file system
\* One artifact file.  st: "missing" (no such file), "corrupt" (present, but
\* empty, truncated or otherwise unparseable), "scalar" (parses to a value
\* without a length), "ok" (parses to val).
NoChunks == [st |-> "missing", val |-> <<>>]
NoEmb == [st |-> "missing", val |-> <<>>]
NoMeta == [st |-> "missing", val |-> ""]

\* fs: the cache tree; last: the call that ended last; ext: the external
\* modifications so far; proc: the threads inside a call; calls: the saves
\* begun; src: the document files handed to compute_document_id; rd: where
\* the thread inside load_chunks_and_embeddings is
VARIABLES fs, last, ext, proc, calls, src, rd
vars == <<fs, last, ext, proc, calls, src, rd>>

\* The tree below cache_dir: root (cache_dir exists), dirs (the entry
\* directories present) and the three artifacts of every identity.
EmptyFs ==
    [root |-> TRUE, dirs |-> {},
     chunks |-> [d \in Ids |-> NoChunks],
     emb |-> [d \in Ids |-> NoEmb],
     meta |-> [d \in Ids |-> NoMeta]]

\* variant: without parents=True nothing is created below a missing cache_dir
mkdir_no_parents(f, d) == IF f.root THEN [f EXCEPT !.dirs = @ \cup {d}] ELSE f

\* cache_path.mkdir(parents=True, exist_ok=True)
mkdir(f, d) == [f EXCEPT !.root = TRUE, !.dirs = @ \cup {d}]

\* variant: the removal takes every entry directory with it
rmtree_all(f, d) == [EmptyFs EXCEPT !.root = f.root]

\* shutil.rmtree(cache_path)
rmtree(f, d) ==
    [f EXCEPT !.dirs = @ \ {d}, !.chunks[d] = NoChunks,
              !.emb[d] = NoEmb, !.meta[d] = NoMeta]

\* shutil.rmtree(self.cache_dir)
rmtree_root(f) == [EmptyFs EXCEPT !.root = FALSE]

\* variant: cache_dir is not created again
mkdir_root_skipped(f) == f

\* self.cache_dir.mkdir(parents=True, exist_ok=True)
mkdir_root(f) == [f EXCEPT !.root = TRUE]

\* cache_path.exists()
path_exists(f, d) == d \in f.dirs

\* variant: metadata.json is not among the required files
cache_exists_two_files(f, d) ==
    /\ path_exists(f, d)
    /\ f.chunks[d].st # "missing"
    /\ f.emb[d].st # "missing"

\* ------------------------------------------------------------ cache_exists
cache_exists(f, d) ==
    /\ path_exists(f, d)
    /\ f.chunks[d].st # "missing"
    /\ f.emb[d].st # "missing"
    /\ f.meta[d].st # "missing"

\* ------------------------------------------------------------------- save
\* open(chunks_file, 'w'): creates the file or truncates it in place
open_chunks(f, d) == [f EXCEPT !.chunks[d] = [st |-> "corrupt", val |-> <<>>]]
\* json.dump(chunks, f) and the close of the file
dump_chunks(f, d, c) ==
    [f EXCEPT !.chunks[d] = [st |-> "ok", val |-> json_dump_list(c)]]
\* np.save(embeddings_file, ...): opens the file for writing ...
open_emb(f, d) == [f EXCEPT !.emb[d] = [st |-> "corrupt", val |-> <<>>]]
\* ... and writes the float32 array
write_emb(f, d, e) ==
    [f EXCEPT !.emb[d] = [st |-> "ok", val |-> np_array_float32(e)]]
\* open(metadata_file, 'w')
open_meta(f, d) == [f EXCEPT !.meta[d] = [st |-> "corrupt", val |-> ""]]
\* variant: metadata.json is opened and nothing is written to it
dump_meta_skipped(f, d, m) == f

\* json.dump(metadata, f)
dump_meta(f, d, m) ==
    [f EXCEPT !.meta[d] = [st |-> "ok", val |-> json_roundtrip(m)]]

\* where a write of save can fail: while the named artifact is written
Faults == {"none", "chunks", "embeddings", "metadata"}

\* The try block of save: the tree when the block ends, and whether it
\* ended by an exception.
save_body(f, d, c, e, m, fault) ==
    LET f1 == open_chunks(f, d)
        f2 == dump_chunks(f1, d, c)
        f3 == open_emb(f2, d)
        f4 == write_emb(f3, d, e)
        f5 == open_meta(f4, d)
        f6 == dump_meta(f5, d, m)
    IN  CASE fault = "chunks" -> [fs |-> f1, raised |-> TRUE]
          [] fault = "embeddings" -> [fs |-> f3, raised |-> TRUE]
          [] fault = "metadata" -> [fs |-> f5, raised |-> TRUE]
          [] OTHER -> [fs |-> f6, raised |-> FALSE]

\* variant: no cleanup
save_cleanup_skipped(f, d) == f
\* variant: the cleanup removes cache_dir's content, not cache_path
save_cleanup_cache_dir(f, d) == [EmptyFs EXCEPT !.root = f.root]

\* the except block of save: clean up the partial cache
save_cleanup(f, d) == IF path_exists(f, d) THEN rmtree(f, d) ELSE f

\* variant: no length check
length_check_missing(c, e) == FALSE

\* the length check that opens save
length_mismatch(c, e) == Len(c) # Len(e)

save_chunks_and_embeddings(f, d, c, e, m, fault) ==
    IF length_mismatch(c, e)
    THEN [fs |-> f, res |-> "ValueError"]
    ELSE LET b == save_body(mkdir(f, d), d, c, e, m, fault)
         IN  IF b.raised
             THEN [fs |-> save_cleanup(b.fs, d), res |-> "Exception"]
             ELSE [fs |-> b.fs, res |-> "ok"]

\* ------------------------------------------------------------------- load
NoBundle == [kind |-> "none", chunks |-> <<>>, embeddings |-> <<>>, metadata |-> ""]
Raised == [kind |-> "raise", chunks |-> <<>>, embeddings |-> <<>>, metadata |-> ""]

\* does reading the artifact raise (missing file, parse error)?
unreadable(x) == x.st \in {"missing", "corrupt"}

\* variant: no consistency validation
load_validate_unchecked(ch, em, me) ==
    IF ch.st = "scalar" \/ em.st = "scalar" THEN Raised
    ELSE [kind |-> "bundle", chunks |-> ch.val, embeddings |-> em.val,
          metadata |-> me.val]

\* "Validate consistency": the bundle, or None on a length mismatch; len()
\* of a value without a length raises.
load_validate(ch, em, me) ==
    IF ch.st = "scalar" \/ em.st = "scalar" THEN Raised
    ELSE IF Len(ch.val) # Len(em.val) THEN NoBundle
    ELSE [kind |-> "bundle", chunks |-> ch.val, embeddings |-> em.val,
          metadata |-> me.val]

\* the try block of load
load_body(f, d) ==
    IF unreadable(f.chunks[d]) \/ unreadable(f.emb[d]) \/ unreadable(f.meta[d])
    THEN Raised
    ELSE load_validate(f.chunks[d], f.emb[d], f.meta[d])

\* variant: the exception is not caught
load_except_reraise(r) == r

\* "except Exception as e: ... return None"
load_except(r) == IF r.kind = "raise" THEN NoBundle ELSE r

load_chunks_and_embeddings(f, d) ==
    IF ~cache_exists(f, d) THEN NoBundle ELSE load_except(load_body(f, d))

\* variant: the except block removes the entry it could not read
tree_after_load_evicting(f, d) ==
    IF /\ d \in f.dirs
       /\ f.chunks[d].st # "missing" /\ f.emb[d].st # "missing"
       /\ f.meta[d].st # "missing"
       /\ \/ f.chunks[d].st # "ok" \/ f.emb[d].st # "ok" \/ f.meta[d].st # "ok"
    THEN [f EXCEPT !.dirs = @ \ {d}, !.chunks[d] = NoChunks,
                   !.emb[d] = NoEmb, !.meta[d] = NoMeta]
    ELSE f

\* The tree after load_chunks_and_embeddings(d): the call tests paths,
\* opens the artifacts with mode 'r' and np.load, and its except block logs
\* and returns None; nothing is created, written or removed.
tree_after_load(f, d) == f

\* ------------------------------------------------------------------ stats
\* st_size of an artifact, in units
file_size(x) ==
    CASE x.st = "missing" -> 0
      [] x.st = "corrupt" -> 0
      [] x.st = "scalar" -> 1
      [] OTHER -> 2

dir_size(f, d) == file_size(f.chunks[d]) + file_size(f.emb[d]) + file_size(f.meta[d])

RECURSIVE sum_sizes(_, _)
sum_sizes(f, D) ==
    IF D = {} THEN 0
    ELSE LET d == CHOOSE x \in D : TRUE IN dir_size(f, d) + sum_sizes(f, D \ {d})

\* variant: only the complete entries are listed
get_cache_stats_complete(f) ==
    LET D == {d \in f.dirs : /\ f.chunks[d].st # "missing"
                             /\ f.emb[d].st # "missing"
                             /\ f.meta[d].st # "missing"}
    IN  [raised |-> FALSE,
         total_documents |-> IF f.root THEN Cardinality(D) ELSE 0,
         total_size_bytes |-> 0,
         document_ids |-> IF f.root THEN D ELSE {}]

\* variant: no test of cache_dir.exists(), iterdir raises when it is missing
get_cache_stats_unguarded(f) ==
    [raised |-> ~f.root,
     total_documents |-> Cardinality(f.dirs),
     total_size_bytes |-> 0,
     document_ids |-> f.dirs]

\* document_ids: the names iterdir yields, each once, in no fixed order.
\* raised: an error leaves the call (there is no try in get_cache_stats).
get_cache_stats(f) ==
    IF ~f.root
    THEN [raised |-> FALSE, total_documents |-> 0, total_size_bytes |-> 0,
          document_ids |-> {}]
    ELSE [raised |-> FALSE, total_documents |-> Cardinality(f.dirs),
          total_size_bytes |-> sum_sizes(f, f.dirs),
          document_ids |-> f.dirs]

\* ------------------------------------------------------------------ clear
\* "if doc_id:" -- None and the empty string are both falsy
truthy(d) == d \notin {EmptyId, NoneId}

\* The try block of clear_cache.  fault: the rmtree of the call raises; what
\* it had removed by then is the caller's to say (nothing here, a part of
\* the tree in clear_cache_interrupted below).
clear_body(f, d, fault) ==
    IF truthy(d)
    THEN IF path_exists(f, d)
         THEN IF fault
              THEN [fs |-> f, raised |-> TRUE, cleared |-> FALSE,
                    documents_cleared |-> 0]
              ELSE [fs |-> rmtree(f, d), raised |-> FALSE, cleared |-> TRUE,
                    documents_cleared |-> 1]
         ELSE [fs |-> f, raised |-> FALSE, cleared |-> FALSE,
               documents_cleared |-> 0]
    ELSE LET doc_count == get_cache_stats(f).total_documents
         IN  IF f.root
             THEN IF fault
                  THEN [fs |-> f, raised |-> TRUE, cleared |-> FALSE,
                        documents_cleared |-> 0]
                  ELSE [fs |-> mkdir_root(rmtree_root(f)), raised |-> FALSE,
                        cleared |-> TRUE, documents_cleared |-> doc_count]
             ELSE [fs |-> f, raised |-> FALSE, cleared |-> TRUE,
                   documents_cleared |-> doc_count]

\* variant: no except clause, the error of rmtree leaves clear_cache
clear_except_reraise(r) == r

\* "except Exception as e": the failure becomes a result
clear_except(r) ==
    IF r.raised
    THEN [fs |-> r.fs, raised |-> FALSE, cleared |-> FALSE,
          documents_cleared |-> 0]
    ELSE r

clear_cache(f, d, fault) == clear_except(clear_body(f, d, fault))

\* ---------------------------------------------------------- document files
\* The files compute_document_id is called on.  A file is a sequence of
\* blocks, each block what one f.read(8192) returns (one of two contents);
\* it can also be missing, or exist and not be open to reading.
Paths == {"x.pdf", "y.pdf", "copy/x.pdf"}
BlockVals == {0, 1}
NoFile == [st |-> "missing", blocks |-> <<>>]
NoSources == [p \in Paths |-> NoFile]
SourceFiles ==
    {NoFile, [st |-> "unreadable", blocks |-> <<0>>]}
        \cup {[st |-> "ok", blocks |-> b] : b \in SeqsUpTo(BlockVals, MaxBlocks)}

\* ------------------------------------------------------ compute_document_id
\* SHA-256 is taken to be free of collisions on the files of the model: the
\* hash state numbers the sequences of blocks absorbed so far, one number
\* per sequence, and the digest is that number written out.
sha256 == 0
update(h, b) == 2 * h + b + 1
hexdigest(h) == ToString(h)

\* "for chunk in iter(lambda: f.read(8192), b''): sha256.update(chunk)"
RECURSIVE read_blocks(_, _)
read_blocks(h, blocks) ==
    IF blocks = <<>> THEN h
    ELSE read_blocks(update(h, Head(blocks)), Tail(blocks))

\* variant: one read, the first block only is hashed
compute_document_id_one_read(files, p) ==
    IF files[p].st = "missing"
    THEN [res |-> "FileNotFoundError", digest |-> ""]
    ELSE IF files[p].st = "unreadable"
    THEN [res |-> "PermissionError", digest |-> ""]
    ELSE [res |-> "returned",
          digest |-> IF files[p].blocks = <<>> THEN hexdigest(sha256)
                     ELSE hexdigest(update(sha256, Head(files[p].blocks)))]

\* variant: a file that cannot be read has the identity of the empty file
compute_document_id_lenient(files, p) ==
    IF files[p].st \in {"missing", "unreadable"}
    THEN [res |-> "returned", digest |-> hexdigest(sha256)]
    ELSE [res |-> "returned",
          digest |-> hexdigest(read_blocks(sha256, files[p].blocks))]

\* The test of file_path.exists(); open(file_path, 'rb'), which raises
\* PermissionError on a file the process may not read; the read loop.
compute_document_id(files, p) ==
    IF files[p].st = "missing"
    THEN [res |-> "FileNotFoundError", digest |-> ""]
    ELSE IF files[p].st = "unreadable"
    THEN [res |-> "PermissionError", digest |-> ""]
    ELSE [res |-> "returned",
          digest |-> hexdigest(read_blocks(sha256, files[p].blocks))]

\* ------------------------------------------------------------------ state
\* last: the call that ended last, with its arguments and what it returned
\* (size: the total_size_bytes of get_cache_stats; was: what a save found at
\* the entry location; path, digest: the file compute_document_id was called
\* on and the identity it returned).
Call(op, d, c, e, m, fault, res, out, n, ids) ==
    [op |-> op, id |-> d, chunks |-> c, embeddings |-> e, metadata |-> m,
     fault |-> fault, res |-> res, out |-> out, n |-> n, ids |-> ids,
     size |-> 0, was |-> "", path |-> "", digest |-> ""]

\* proc[p]: where thread p is in a save_chunks_and_embeddings call (SpecConc).
Procs == {"t1", "t2"}
Idle == [pc |-> "idle", art |-> "chunks", id |-> "a", chunks |-> <<>>,
         embeddings |-> <<>>, metadata |-> ""]

\* rd: where a thread is in a load_chunks_and_embeddings call (SpecIso), and
\* the artifacts it has read so far.
NotReading == [pc |-> "idle", id |-> "a", ch |-> NoChunks, em |-> NoEmb,
               me |-> NoMeta]

\* CacheService.__init__: cache_dir is created
Init ==
    /\ fs = EmptyFs
    /\ last = Call("init", NoneId, <<>>, <<>>, "", "none", "", NoBundle, 0, {})
    /\ ext = 0
    /\ proc = [p \in Procs |-> Idle]
    /\ calls = {}
    /\ src = NoSources
    /\ rd = NotReading

\* what a call finds at the entry location of d
found(f, d) ==
    CASE ~f.root -> "no cache_dir"
      [] ~path_exists(f, d) -> "nothing"
      [] ~cache_exists(f, d) -> "incomplete"
      [] OTHER -> "complete"

\* ---------------------------------------------------------------- actions
\* save_chunks_and_embeddings(d, c, e, m), with a write fault or none; a
\* fault needs a write, so there is none when the length check rejects.
SaveFrom(C, E, M) ==
    \E d \in Ids, c \in C, e \in E, m \in M, fault \in Faults :
        /\ fault # "none" => ~length_mismatch(c, e)
        /\ LET r == save_chunks_and_embeddings(fs, d, c, e, m, fault)
           IN  /\ fs' = r.fs
               /\ last' = [Call("save", d, c, e, m, fault, r.res, NoBundle, 0, {})
                             EXCEPT !.was = found(fs, d)]
        /\ UNCHANGED <<ext, proc, calls, src, rd>>

Save == SaveFrom(ChunkInputs, EmbInputs, MetaVals)

\* load_chunks_and_embeddings(d)
LoadOf(D) ==
    \E d \in D :
        /\ last' = Call("load", d, <<>>, <<>>, "", "none", "returned",
                        load_chunks_and_embeddings(fs, d), 0, {})
        /\ fs' = tree_after_load(fs, d)
        /\ UNCHANGED <<ext, proc, calls, src, rd>>

Load == LoadOf(Ids)

\* cache_exists(d)
Exists ==
    \E d \in Ids :
        /\ last' = Call("exists", d, <<>>, <<>>, "", "none",
                        IF cache_exists(fs, d) THEN "true" ELSE "false",
                        NoBundle, 0, {})
        /\ UNCHANGED <<fs, ext, proc, calls, src, rd>>

\* get_cache_stats()
Stats ==
    /\ LET st == get_cache_stats(fs)
       IN  last' = [Call("stats", NoneId, <<>>, <<>>, "", "none",
                         IF st.raised THEN "raise" ELSE "returned",
                         NoBundle, st.total_documents, st.document_ids)
                       EXCEPT !.size = st.total_size_bytes]
    /\ UNCHANGED <<fs, ext, proc, calls, src, rd>>

\* clear_cache(d), d an identity, the empty string or None, with the rmtree
\* it performs (when it performs one) failing or not
ClearOf(D) ==
    \E d \in D, fault \in BOOLEAN :
        /\ fault => IF truthy(d) THEN path_exists(fs, d) ELSE fs.root
        /\ LET r == clear_cache(fs, d, fault)
           IN  /\ fs' = r.fs
               /\ last' = Call("clear", d, <<>>, <<>>, "",
                               IF fault THEN "rmtree" ELSE "none",
                               IF r.raised THEN "raise"
                               ELSE IF r.cleared THEN "cleared"
                               ELSE "not_cleared",
                               NoBundle, r.documents_cleared, {})
        /\ UNCHANGED <<ext, proc, calls, src, rd>>

Clear == ClearOf(Ids \cup {EmptyId, NoneId})

Next == Save \/ Load \/ Exists \/ Stats \/ Clear

Spec == Init /\ [][Next]_vars

\* ------------------------------------------------- external modifications
\* What another program (or an operator) can do to the tree below cache_dir
\* between two calls: remove an artifact, damage one, replace chunks.json
\* by another valid list, remove the whole cache directory.
Artifacts == {"chunks", "embeddings", "metadata"}

artifact(f, d, a) ==
    CASE a = "chunks" -> f.chunks[d]
      [] a = "embeddings" -> f.emb[d]
      [] OTHER -> f.meta[d]

set_state(f, d, a, st) ==
    CASE a = "chunks" -> [f EXCEPT !.chunks[d] = [st |-> st, val |-> <<>>]]
      [] a = "embeddings" -> [f EXCEPT !.emb[d] = [st |-> st, val |-> <<>>]]
      [] OTHER -> [f EXCEPT !.meta[d] = [st |-> st, val |-> ""]]

External(f) ==
    /\ ext < MaxExternal
    /\ ext' = ext + 1
    /\ fs' = f
    /\ last' = Call("external", NoneId, <<>>, <<>>, "", "none", "", NoBundle, 0, {})
    /\ UNCHANGED <<proc, calls, src, rd>>

ExternalDelete ==
    \E d \in fs.dirs, a \in Artifacts :
        /\ artifact(fs, d, a).st # "missing"
        /\ External(set_state(fs, d, a, "missing"))

ExternalCorrupt ==
    \E d \in fs.dirs, a \in Artifacts :
        /\ artifact(fs, d, a).st # "missing"
        /\ External(set_state(fs, d, a, "corrupt"))

ExternalScalar ==
    \E d \in fs.dirs, a \in {"chunks", "embeddings"} :
        /\ artifact(fs, d, a).st # "missing"
        /\ External(set_state(fs, d, a, "scalar"))

ExternalRewrite ==
    \E d \in fs.dirs, c \in PlainChunkInputs :
        /\ fs.chunks[d].st # "missing"
        /\ External([fs EXCEPT !.chunks[d] = [st |-> "ok", val |-> c]])

ExternalDeleteRoot == External(rmtree_root(fs))

\* In SpecExt the saves write plain inputs: what the claims checked there
\* look at is the damage done to an entry, not the conversions.
SavePlain == SaveFrom(PlainChunkInputs, PlainEmbInputs, {"text"})

NextExt ==
    \/ SavePlain \/ Load \/ Exists \/ Stats \/ Clear
    \/ ExternalDelete \/ ExternalCorrupt \/ ExternalScalar
    \/ ExternalRewrite \/ ExternalDeleteRoot

SpecExt == Init /\ [][NextExt]_vars

\* ---------------------------------------------------- interrupted removal
\* shutil.rmtree removes the files of a directory one by one and the
\* directory last, and stops at the first error: what it removed by then
\* stays removed.  gone: the artifacts of d removed before the error; the
\* directory itself is still there.
rmtree_interrupted(f, d, gone) ==
    [f EXCEPT !.chunks[d] = IF "chunks" \in gone THEN NoChunks ELSE @,
              !.emb[d] = IF "embeddings" \in gone THEN NoEmb ELSE @,
              !.meta[d] = IF "metadata" \in gone THEN NoMeta ELSE @]

\* shutil.rmtree(self.cache_dir) stopping at an error: the entry directories
\* in done are removed whole, d has lost the artifacts in gone, the rest and
\* cache_dir itself are still there.
rmtree_root_interrupted(f, done, d, gone) ==
    rmtree_interrupted(
        [f EXCEPT !.dirs = @ \ done,
                  !.chunks = [x \in Ids |-> IF x \in done THEN NoChunks ELSE @[x]],
                  !.emb = [x \in Ids |-> IF x \in done THEN NoEmb ELSE @[x]],
                  !.meta = [x \in Ids |-> IF x \in done THEN NoMeta ELSE @[x]]],
        d, gone)

\* clear_cache when its rmtree raises after it turned the tree f into g
clear_cache_interrupted(f, d, g) ==
    clear_except([clear_body(f, d, TRUE) EXCEPT !.fs = g])

\* clear_cache(d) with an rmtree that raises after it removed something
ClearInterrupted ==
    \E d \in Ids \cup {EmptyId, NoneId}, x \in Ids,
       gone \in SUBSET Artifacts, done \in SUBSET fs.dirs :
        /\ IF truthy(d)
           THEN path_exists(fs, d) /\ x = d /\ done = {}
           ELSE fs.root /\ x \notin done
        /\ LET g == IF truthy(d)
                    THEN rmtree_interrupted(fs, d, gone)
                    ELSE rmtree_root_interrupted(fs, done, x, gone)
               r == clear_cache_interrupted(fs, d, g)
           IN  /\ g # fs
               /\ fs' = r.fs
               /\ last' = Call("clear", d, <<>>, <<>>, "", "interrupted",
                               IF r.raised THEN "raise"
                               ELSE IF r.cleared THEN "cleared"
                               ELSE "not_cleared",
                               NoBundle, r.documents_cleared, {})
        /\ UNCHANGED <<ext, proc, calls, src, rd>>

\* SpecFault: the calls of Spec (saves of plain inputs), and evictions whose
\* removal fails part-way.  No external modification.
NextFault ==
    SavePlain \/ Load \/ Exists \/ Stats \/ Clear \/ ClearInterrupted

SpecFault == Init /\ [][NextFault]_vars

\* ------------------------------------------------------ document identity
\* SpecId: compute_document_id is called on the files of a tree of
\* documents, any tree of the model; the cache is empty or holds one entry.
OneEntry ==
    save_chunks_and_embeddings(EmptyFs, "a", <<"text">>, <<2>>, "text", "none").fs

InitId ==
    /\ fs \in {EmptyFs, OneEntry}
    /\ last = Call("init", NoneId, <<>>, <<>>, "", "none", "", NoBundle, 0, {})
    /\ ext = 0
    /\ proc = [p \in Procs |-> Idle]
    /\ calls = {}
    /\ src \in [Paths -> SourceFiles]
    /\ rd = NotReading

\* compute_document_id(p)
ComputeId ==
    \E p \in Paths :
        /\ LET r == compute_document_id(src, p)
           IN  last' = [Call("compute_id", NoneId, <<>>, <<>>, "", "none",
                             r.res, NoBundle, 0, {})
                        EXCEPT !.path = p, !.digest = r.digest]
        /\ UNCHANGED <<fs, ext, proc, calls, src, rd>>

NextId == ComputeId

SpecId == InitId /\ [][NextId]_vars

\* ------------------------------------------------------ interleaved saves
\* SpecConc: save_chunks_and_embeddings runs one file-system call at a time,
\* and the calls of the other threads (saves of other identities, loads,
\* existence checks, statistics, evictions) run in between.  calls collects
\* the arguments of every save that got past the length check.
\* The saves of SpecConc write one chunk, with one embedding row or (the
\* rejected call) with none.
ConcChunkInputs == {c \in ChunkInputs : Len(c) = 1}
ConcEmbInputs == {e \in EmbInputs : Len(e) <= 1}

Step(p) == Call("step", NoneId, <<>>, <<>>, "", "none", "", NoBundle, 0, {})
Return(p, res) ==
    Call("save", proc[p].id, proc[p].chunks, proc[p].embeddings,
         proc[p].metadata, "none", res, NoBundle, 0, {})

\* the in-progress saves of identity d
Saving(d) == {p \in Procs : proc[p].pc # "idle" /\ proc[p].id = d}

open_artifact(f, d, a) ==
    CASE a = "chunks" -> open_chunks(f, d)
      [] a = "embeddings" -> open_emb(f, d)
      [] OTHER -> open_meta(f, d)

write_artifact(f, d, a, c, e, m) ==
    CASE a = "chunks" -> dump_chunks(f, d, c)
      [] a = "embeddings" -> write_emb(f, d, e)
      [] OTHER -> dump_meta(f, d, m)

\* the call is made, for an identity of D; the length check
SaveEnter(p, D) ==
    \E d \in D, c \in ConcChunkInputs, e \in ConcEmbInputs, m \in MetaVals :
        /\ proc[p].pc = "idle"
        /\ LET call == [id |-> d, chunks |-> c, embeddings |-> e, metadata |-> m]
           IN  IF length_mismatch(c, e)
               THEN /\ last' = Call("save", d, c, e, m, "none", "ValueError",
                                    NoBundle, 0, {})
                    /\ UNCHANGED <<proc, calls>>
               ELSE /\ Cardinality(calls \cup {call}) <= MaxCalls
                    /\ calls' = calls \cup {call}
                    /\ proc' = [proc EXCEPT ![p] =
                                   [pc |-> "mkdir", art |-> "chunks", id |-> d,
                                    chunks |-> c, embeddings |-> e, metadata |-> m]]
                    /\ last' = Step(p)
        /\ UNCHANGED <<fs, ext, src, rd>>

\* single writer per identity
SaveBegin(p) == SaveEnter(p, {d \in Ids : Saving(d) = {}})

\* cache_path.mkdir(parents=True, exist_ok=True)
SaveMkdir(p) ==
    /\ proc[p].pc = "mkdir"
    /\ fs' = mkdir(fs, proc[p].id)
    /\ proc' = [proc EXCEPT ![p].pc = "open"]
    /\ last' = Step(p)
    /\ UNCHANGED <<ext, calls, src, rd>>

\* the artifact is opened for writing: it fails when the directory is gone
\* (or by a fault), else the file is created or truncated
SaveOpen(p) ==
    \E fault \in BOOLEAN :
        /\ proc[p].pc = "open"
        /\ IF fault \/ ~path_exists(fs, proc[p].id)
           THEN /\ proc' = [proc EXCEPT ![p].pc = "cleanup"]
                /\ fs' = fs
           ELSE /\ proc' = [proc EXCEPT ![p].pc = "write"]
                /\ fs' = open_artifact(fs, proc[p].id, proc[p].art)
        /\ last' = Step(p)
        /\ UNCHANGED <<ext, calls, src, rd>>

\* the artifact is written and closed; a write to a file that was removed
\* meanwhile changes nothing that can be seen
SaveWrite(p) ==
    \E fault \in BOOLEAN :
        /\ proc[p].pc = "write"
        /\ IF fault
           THEN /\ proc' = [proc EXCEPT ![p].pc = "cleanup"]
                /\ fs' = fs
           ELSE /\ proc' = [proc EXCEPT
                      ![p].pc = IF proc[p].art = "metadata" THEN "stat" ELSE "open",
                      ![p].art = CASE proc[p].art = "chunks" -> "embeddings"
                                   [] OTHER -> "metadata"]
                /\ fs' = IF artifact(fs, proc[p].id, proc[p].art).st # "missing"
                         THEN write_artifact(fs, proc[p].id, proc[p].art,
                                  proc[p].chunks, proc[p].embeddings, proc[p].metadata)
                         ELSE fs
        /\ last' = Step(p)
        /\ UNCHANGED <<ext, calls, src, rd>>

\* "Log cache size": cache_path.iterdir() fails when the directory is gone;
\* else the call returns (and the thread is as after says)
SaveStatThen(p, after) ==
    /\ proc[p].pc = "stat"
    /\ IF path_exists(fs, proc[p].id)
       THEN /\ proc' = [proc EXCEPT ![p] = after]
            /\ last' = Return(p, "ok")
       ELSE /\ proc' = [proc EXCEPT ![p].pc = "cleanup"]
            /\ last' = Step(p)
    /\ UNCHANGED <<fs, ext, calls, src, rd>>

SaveStat(p) == SaveStatThen(p, Idle)

\* the except block: the partial cache is removed and the error raised
SaveCleanupThen(p, after) ==
    /\ proc[p].pc = "cleanup"
    /\ fs' = save_cleanup(fs, proc[p].id)
    /\ proc' = [proc EXCEPT ![p] = after]
    /\ last' = Return(p, "Exception")
    /\ UNCHANGED <<ext, calls, src, rd>>

SaveCleanup(p) == SaveCleanupThen(p, Idle)

SaveStep ==
    \E p \in Procs :
        \/ SaveBegin(p) \/ SaveMkdir(p) \/ SaveOpen(p)
        \/ SaveWrite(p) \/ SaveStat(p) \/ SaveCleanup(p)

NextConc == SaveStep \/ Load \/ Exists \/ Stats \/ Clear

SpecConc == Init /\ [][NextConc]_vars

\* ------------------------------------------- two saves of one identity
\* SpecRace: each of the two threads calls save_chunks_and_embeddings once,
\* for the same identity, and nothing keeps the two calls apart.  The calls
\* overlap: neither returns before the other one is made.  A thread that
\* has returned stays at "ok" or "failed" with the arguments of its call.
\* Two writes to one file are taken one after the other, the later one
\* deciding the content.
RaceId == "a"
Overlap == \A q \in Procs : proc[q].pc # "idle"

RaceStat(p) == Overlap /\ SaveStatThen(p, [proc[p] EXCEPT !.pc = "ok"])
RaceCleanup(p) == Overlap /\ SaveCleanupThen(p, [proc[p] EXCEPT !.pc = "failed"])

NextRace ==
    \E p \in Procs :
        \/ SaveEnter(p, {RaceId}) \/ SaveMkdir(p) \/ SaveOpen(p)
        \/ SaveWrite(p) \/ RaceStat(p) \/ RaceCleanup(p)

SpecRace == Init /\ [][NextRace]_vars

\* ------------------------------------------------ a load among other calls
\* SpecIso: one thread is inside load_chunks_and_embeddings(A) and makes one
\* file-system call at a time, while thread "t1" saves (step by step),
\* loads, checks and evicts other identities.  While A is being read no call
\* on A and no total eviction begins, and the read of A begins when no save
\* of A is under way; between two reads every call is possible.
Reading(d) == rd.pc # "idle" /\ rd.id = d
Others == {d \in Ids : ~Reading(d)}

\* the load returns out
ReadReturn(out) ==
    /\ rd' = NotReading
    /\ last' = Call("load", rd.id, <<>>, <<>>, "", "none", "returned", out, 0, {})

\* the call is made
ReadBegin ==
    \E d \in Ids :
        /\ rd.pc = "idle"
        /\ Saving(d) = {}
        /\ rd' = [NotReading EXCEPT !.pc = "exists", !.id = d]
        /\ last' = Step("t2")
        /\ UNCHANGED <<fs, ext, proc, calls, src>>

\* "if not self.cache_exists(doc_id): return None"
ReadExists ==
    /\ rd.pc = "exists"
    /\ IF cache_exists(fs, rd.id)
       THEN rd' = [rd EXCEPT !.pc = "chunks"] /\ last' = Step("t2")
       ELSE ReadReturn(NoBundle)
    /\ UNCHANGED <<fs, ext, proc, calls, src>>

\* one artifact is opened and read; an error ends the call in the except
\* block
ReadArtifact ==
    /\ rd.pc \in Artifacts
    /\ LET x == artifact(fs, rd.id, rd.pc)
       IN  IF unreadable(x)
           THEN ReadReturn(load_except(Raised))
           ELSE /\ rd' = [rd EXCEPT
                         !.pc = CASE rd.pc = "chunks" -> "embeddings"
                                  [] rd.pc = "embeddings" -> "metadata"
                                  [] OTHER -> "validate",
                         !.ch = IF rd.pc = "chunks" THEN x ELSE @,
                         !.em = IF rd.pc = "embeddings" THEN x ELSE @,
                         !.me = IF rd.pc = "metadata" THEN x ELSE @]
                /\ last' = Step("t2")
    /\ UNCHANGED <<fs, ext, proc, calls, src>>

\* "Validate consistency" and the return of the bundle
ReadValidate ==
    /\ rd.pc = "validate"
    /\ ReadReturn(load_except(load_validate(rd.ch, rd.em, rd.me)))
    /\ UNCHANGED <<fs, ext, proc, calls, src>>

ReadStep == ReadBegin \/ ReadExists \/ ReadArtifact \/ ReadValidate

\* the calls of thread "t1"
OtherStep ==
    \/ SaveEnter("t1", Others) \/ SaveMkdir("t1") \/ SaveOpen("t1")
    \/ SaveWrite("t1") \/ SaveStat("t1") \/ SaveCleanup("t1")
    \/ LoadOf(Others)
    \/ Exists
    \/ ClearOf(IF rd.pc = "idle" THEN Ids \cup {EmptyId, NoneId} ELSE Others)

NextIso == ReadStep \/ OtherStep

SpecIso == Init /\ [][NextIso]_vars

\* ================================================================== claims
\* what load returns for the arguments of one save call (the chunks and the
\* metadata as JSON gives them back, the rows as float32)
Supplied(c) ==
    [kind |-> "bundle", chunks |-> json_dump_list(c.chunks),
     embeddings |-> np_array_float32(c.embeddings),
     metadata |-> json_roundtrip(c.metadata)]

\* the three artifacts of d parse to lists (chunks, rows) and a mapping
Parses(f, d) ==
    /\ path_exists(f, d)
    /\ f.chunks[d].st = "ok" /\ f.emb[d].st = "ok" /\ f.meta[d].st = "ok"
\* the entry on disk has as many chunks as embedding rows
CountsAgree(f, d) == Len(f.chunks[d].val) = Len(f.emb[d].val)

\* C1: an entry is never partially visible: in every state, the states in
\* the middle of a save included, what a load of an identity returns is
\* absent or the bundle supplied by one single save call of that identity.
\* (SpecConc)
C1_NeverPartiallyVisible ==
    \A x \in Ids :
        LET r == load_chunks_and_embeddings(fs, x)
        IN  r.kind = "bundle" => \E c \in calls : c.id = x /\ r = Supplied(c)

C3_MismatchRejectedBeforeIO ==
    [][(last'.op = "save" /\ Len(last'.chunks) # Len(last'.embeddings))
          => (last'.res = "ValueError" /\ fs' = fs)]_vars

\* a save of 2 chunks with 1 embedding was rejected, and the identity has no
\* entry while the other one has
C3_Witness ==
    /\ last.op = "save" /\ last.res = "ValueError"
    /\ Len(last.chunks) = 2 /\ Len(last.embeddings) = 1
    /\ ~path_exists(fs, last.id)
    /\ \E b \in Ids : cache_exists(fs, b)

\* the load that follows the last call at once
LoadNow == load_chunks_and_embeddings(fs, last.id)
SavedOk == last.op = "save" /\ last.res = "ok" /\ Len(last.chunks) > 0

\* C4 as stated: after a successful save of non-empty lists, the load that
\* follows returns chunks, embeddings and metadata equal to the inputs.
C4_RoundTripExact ==
    SavedOk => LoadNow = [kind |-> "bundle", chunks |-> last.chunks,
                          embeddings |-> last.embeddings,
                          metadata |-> last.metadata]

\* a value as JSON gives it back
AsJson(in, out) ==
    /\ in = "text" => out = "text"
    /\ in = "tuple" => out = "list"
\* a row as float32 gives it back: representable, and within the precision
WithinFloat32(in, out) ==
    /\ out % 2 = 0
    /\ in - out \in {-1, 0, 1}

\* C4 as amended: the load returns as many chunks and rows as were saved,
\* in the same order; chunk i and the metadata are the inputs as JSON gives
\* them back, row i is input row i within float32 precision.  (Spec)
C4_RoundTrip ==
    SavedOk =>
        /\ LoadNow.kind = "bundle"
        /\ Len(LoadNow.chunks) = Len(last.chunks)
        /\ Len(LoadNow.embeddings) = Len(last.embeddings)
        /\ \A i \in 1..Len(last.chunks) :
               /\ AsJson(last.chunks[i], LoadNow.chunks[i])
               /\ WithinFloat32(last.embeddings[i], LoadNow.embeddings[i])
        /\ AsJson(last.metadata, LoadNow.metadata)

\* two chunks were saved without fault and are loaded in their order
C4_Witness ==
    /\ SavedOk /\ last.fault = "none"
    /\ last.chunks = <<"tuple", "text">>
    /\ LoadNow.kind = "bundle" /\ LoadNow.chunks = <<"list", "text">>
    /\ LoadNow.embeddings = <<0, 2>>

\* C5: whatever the entry on disk, a bundle that load returns has as many
\* chunks as embeddings, and an entry whose counts differ is not returned.
\* (SpecExt)
C5_LoadedCountsAgree ==
    /\ last.op = "load" =>
           (last.out.kind = "bundle"
               => Len(last.out.chunks) = Len(last.out.embeddings))
    /\ \A d \in Ids :
           LET r == load_chunks_and_embeddings(fs, d)
           IN  /\ r.kind = "bundle" => Len(r.chunks) = Len(r.embeddings)
               /\ (Parses(fs, d) /\ ~CountsAgree(fs, d)) => r.kind = "none"

\* an entry with 2 chunks and 1 embedding row was loaded: absent
C5_Witness ==
    /\ last.op = "load" /\ last.out.kind = "none"
    /\ Parses(fs, last.id)
    /\ Len(fs.chunks[last.id].val) = 2 /\ Len(fs.emb[last.id].val) = 1

\* C6: load raises nothing and changes nothing on disk; for an identity
\* with no entry, an incomplete entry, an artifact that does not parse or
\* counts that differ, it returns the absent result of a plain miss.
\* (SpecExt)
C6_LoadNeverRaises ==
    [][last'.op = "load" =>
          /\ fs' = fs
          /\ last'.out.kind \in {"none", "bundle"}
          /\ ~(Parses(fs, last'.id) /\ CountsAgree(fs, last'.id))
                 => last'.out = NoBundle]_vars

\* a complete entry with an artifact that does not parse was loaded: absent
C6_Witness ==
    /\ last.op = "load" /\ last.out = NoBundle
    /\ cache_exists(fs, last.id)
    /\ \E a \in Artifacts : artifact(fs, last.id, a).st \in {"corrupt", "scalar"}

\* the entry directory of d holds all three artifacts
AllPresent(f, d) ==
    /\ d \in f.dirs
    /\ \A a \in Artifacts : artifact(f, d, a).st # "missing"

\* C7: cache_exists(X) answers true exactly when the entry directory of X
\* exists and holds chunks.json, embeddings.npy and metadata.json; a
\* directory with an artifact missing is answered false, and its load
\* returns absent.  (SpecExt)
C7_ExistsIffAllThree ==
    /\ last.op = "exists" =>
           /\ last.res \in {"true", "false"}
           /\ last.res = "true" <=> AllPresent(fs, last.id)
    /\ \A d \in Ids :
           (d \in fs.dirs /\ ~AllPresent(fs, d)) =>
               /\ ~cache_exists(fs, d)
               /\ load_chunks_and_embeddings(fs, d) = NoBundle

\* cache_exists answered false for a complete entry from which only
\* metadata.json was deleted
C7_Witness ==
    /\ last.op = "exists" /\ last.res = "false"
    /\ last.id \in fs.dirs
    /\ fs.chunks[last.id].st = "ok" /\ fs.emb[last.id].st = "ok"
    /\ fs.meta[last.id].st = "missing"

\* the entry of d: whether its directory exists, and its three artifacts
Entry(f, d) == <<d \in f.dirs, f.chunks[d], f.emb[d], f.meta[d]>>

\* C8: clear_cache(A), A an identity whose directory exists, removes the
\* directory, reports documents_cleared = 1, leaves cache_exists(A) false,
\* and leaves the entry of every other identity, and what its load returns,
\* as it was.  (Spec)
C8_TargetedEviction ==
    [][(/\ last'.op = "clear" /\ last'.id \in Ids /\ last'.fault = "none"
        /\ path_exists(fs, last'.id))
          => /\ ~path_exists(fs', last'.id)
             /\ ~cache_exists(fs', last'.id)
             /\ last'.res = "cleared" /\ last'.n = 1
             /\ fs'.root
             /\ \A b \in Ids \ {last'.id} :
                    /\ Entry(fs', b) = Entry(fs, b)
                    /\ cache_exists(fs', b) = cache_exists(fs, b)
                    /\ load_chunks_and_embeddings(fs', b)
                           = load_chunks_and_embeddings(fs, b)]_vars

\* one entry was evicted and the other one is still complete
C8_Witness ==
    /\ last.op = "clear" /\ last.id \in Ids /\ last.n = 1
    /\ ~cache_exists(fs, last.id)
    /\ \E b \in Ids \ {last.id} :
           load_chunks_and_embeddings(fs, b).kind = "bundle"

\* C9: clear_cache() reports the entry count get_cache_stats gave just
\* before; afterwards get_cache_stats gives 0 documents and cache_dir
\* exists and is empty.  (Spec)
C9_TotalEviction ==
    [][(last'.op = "clear" /\ last'.id = NoneId /\ last'.fault = "none")
          => /\ last'.n = get_cache_stats(fs).total_documents
             /\ last'.res = "cleared"
             /\ get_cache_stats(fs').total_documents = 0
             /\ fs'.root
             /\ fs' = EmptyFs]_vars

\* a total eviction removed two entries
C9_Witness ==
    /\ last.op = "clear" /\ last.id = NoneId /\ last.n = 2
    /\ fs.root /\ fs.dirs = {}

\* C10 as stated: once cache_exists(X) is true it turns false only by
\* clear_cache(X) or a total clear_cache().
C10_OnlyEvictionDestroys ==
    [][\A x \in Ids :
          (cache_exists(fs, x) /\ ~cache_exists(fs', x))
              => (last'.op = "clear" /\ (last'.id = x \/ ~truthy(last'.id)))]_vars

\* C10 as amended: once cache_exists(X) is true it turns false only by
\* clear_cache(X), by a total clear_cache, or by a save of X itself that
\* fails (its cleanup removes the directory of X); no load, existence
\* check, statistics call, successful save, or save of another identity
\* makes the entry disappear.  (Spec)
C10_EvictionOrFailedSaveDestroys ==
    [][\A x \in Ids :
          (cache_exists(fs, x) /\ ~cache_exists(fs', x))
              => \/ last'.op = "clear" /\ (last'.id = x \/ ~truthy(last'.id))
                 \/ last'.op = "save" /\ last'.id = x /\ last'.res = "Exception"]_vars

\* a save of an identity failed and the identity has no entry, while the
\* other identity still has its complete entry
C10_Witness ==
    /\ last.op = "save" /\ last.res = "Exception"
    /\ ~cache_exists(fs, last.id)
    /\ \E b \in Ids \ {last.id} : cache_exists(fs, b)

\* C11: clear_cache never lets an error out, in either mode: when its rmtree
\* fails (before or after it removed something) the call returns
\* cleared = False with documents_cleared = 0; and clear_cache(X) for an X
\* whose directory is absent returns documents_cleared = 0 and leaves the
\* tree as it was.
C11_ClearNeverRaises ==
    [][last'.op = "clear" =>
        /\ last'.res \in {"cleared", "not_cleared"}
        /\ last'.fault # "none" =>
               last'.res = "not_cleared" /\ last'.n = 0
        /\ (truthy(last'.id) /\ ~path_exists(fs, last'.id)) =>
               last'.n = 0 /\ fs' = fs]_vars

\* a total eviction has failed after it removed a part of an entry
C11_Witness ==
    /\ last.op = "clear"
    /\ last.fault = "interrupted"
    /\ ~truthy(last.id)
    /\ last.res = "not_cleared"
    /\ last.n = 0
    /\ \E d \in fs.dirs : ~cache_exists(fs, d)

\* C12: get_cache_stats counts the entry directories directly under
\* cache_dir and lists their names: total_documents is their number,
\* document_ids their set (complete or not), so every identity that
\* cache_exists reports is listed, and after saves of "a" and "b" into the
\* empty cache the call returns 2 and {"a", "b"}; total_documents is the
\* number of document_ids in every state.
C12_StatsCountEntries ==
    /\ LET st == get_cache_stats(fs)
       IN  st.total_documents = Cardinality(st.document_ids)
    /\ last.op = "stats" =>
          /\ last.n = Cardinality(fs.dirs)
          /\ last.ids = fs.dirs
          /\ last.n = Cardinality(last.ids)
          /\ {d \in Ids : cache_exists(fs, d)} \subseteq last.ids
          /\ (\A d \in Ids : cache_exists(fs, d)) =>
                 last.n = 2 /\ last.ids = {"a", "b"}

\* the statistics of a cache that holds the entries of "a" and "b"
C12_Witness ==
    /\ last.op = "stats"
    /\ ext = 0
    /\ \A d \in Ids : cache_exists(fs, d)
    /\ last.n = 2
    /\ last.ids = {"a", "b"}

\* C13: get_cache_stats returns, and returns zero documents, zero bytes and
\* no identity, when cache_dir holds no entry directory and when cache_dir
\* itself is missing.
C13_StatsOfEmptyOrMissingRoot ==
    (last.op = "stats" /\ (~fs.root \/ fs.dirs = {})) =>
        /\ last.res = "returned"
        /\ last.n = 0
        /\ last.size = 0
        /\ last.ids = {}

\* the statistics of a cache whose directory was removed
C13_Witness ==
    /\ last.op = "stats"
    /\ ~fs.root
    /\ last.res = "returned"
    /\ last.n = 0
    /\ last.size = 0

\* C14: calls on different identities do not interfere.  While a thread is
\* inside load(A), every step of a save, a load or a targeted eviction of
\* another identity leaves the entry of A, cache_exists(A) and what a load
\* of A run alone would return as they were; and the interleaved load(A)
\* returns what load(A) run alone returns.
C14_DistinctIdentitiesIsolated ==
    [][/\ \A a \in Ids : (Reading(a) /\ rd' = rd) =>
              /\ Entry(fs', a) = Entry(fs, a)
              /\ cache_exists(fs', a) = cache_exists(fs, a)
              /\ load_chunks_and_embeddings(fs', a)
                     = load_chunks_and_embeddings(fs, a)
       /\ (rd.pc # "idle" /\ rd'.pc = "idle") =>
              /\ last'.op = "load"
              /\ last'.id = rd.id
              /\ last'.out = load_chunks_and_embeddings(fs, rd.id)]_vars

\* a load has returned the entry of one identity while the save of the
\* other one has a file open
C14_Witness ==
    /\ last.op = "load"
    /\ last.out.kind = "bundle"
    /\ rd.pc = "idle"
    /\ proc["t1"].pc = "write"
    /\ proc["t1"].id # last.id
    /\ ~cache_exists(fs, proc["t1"].id)

\* C15: the cache does not fail its caller after its directory, or the
\* artifacts of an entry, were removed from outside: a load of an identity
\* whose entry is damaged, or of any identity when cache_dir is gone,
\* returns None; get_cache_stats and clear_cache return their result; and a
\* save of lists of equal length (no write fault) returns, after which the
\* entry exists and loads.
Damaged(f, d) == ~f.root \/ (path_exists(f, d) /\ ~cache_exists(f, d))

C15_CacheSurvivesExternalRemoval ==
    [][/\ (last'.op = "load" /\ Damaged(fs, last'.id)) =>
              last'.res = "returned" /\ last'.out = NoBundle
       /\ last'.op = "stats" => last'.res = "returned"
       /\ last'.op = "clear" => last'.res \in {"cleared", "not_cleared"}
       /\ (/\ last'.op = "save"
           /\ last'.fault = "none"
           /\ Len(last'.chunks) = Len(last'.embeddings)) =>
              /\ last'.res = "ok"
              /\ fs'.root
              /\ cache_exists(fs', last'.id)
              /\ load_chunks_and_embeddings(fs', last'.id).kind = "bundle"]_vars

\* a save has succeeded where cache_dir had been removed
C15_Witness ==
    /\ last.op = "save"
    /\ last.was = "no cache_dir"
    /\ ext > 0
    /\ last.res = "ok"
    /\ cache_exists(fs, last.id)
    /\ LoadNow.kind = "bundle"

\* C16: the identity compute_document_id returns depends on the bytes of the
\* file and on nothing else: a file of any other name or path with the same
\* bytes has the identity the call returned, and a file whose bytes differ
\* (in any block) has another one.
C16_IdentityFromContentOnly ==
    (last.op = "compute_id" /\ last.res = "returned") =>
        \A q \in Paths : src[q].st = "ok" =>
            (compute_document_id(src, q).digest = last.digest
                <=> src[q].blocks = src[last.path].blocks)

\* the identity of a file of two blocks, with a copy under another path and
\* a file that differs from it in the second block only
C16_Witness ==
    /\ last.op = "compute_id"
    /\ last.res = "returned"
    /\ last.path = "x.pdf"
    /\ Len(src["x.pdf"].blocks) = 2
    /\ src["copy/x.pdf"] = src["x.pdf"]
    /\ src["y.pdf"].st = "ok"
    /\ Len(src["y.pdf"].blocks) = 2
    /\ src["y.pdf"].blocks[1] = src["x.pdf"].blocks[1]
    /\ src["y.pdf"].blocks[2] # src["x.pdf"].blocks[2]
    /\ compute_document_id(src, "copy/x.pdf").digest = last.digest
    /\ compute_document_id(src, "y.pdf").digest # last.digest

\* C17 as stated: compute_document_id raises FileNotFoundError when the file
\* is missing and when it cannot be read, returns no identity and leaves
\* the cache as it was.
C17_NotFoundWhenMissingOrUnreadable ==
    [][(/\ last'.op = "compute_id"
        /\ src[last'.path].st \in {"missing", "unreadable"}) =>
           /\ last'.res = "FileNotFoundError"
           /\ last'.digest = ""
           /\ fs' = fs]_vars

\* C17, amended: compute_document_id raises FileNotFoundError when the file
\* is missing, and lets the error of open (PermissionError) out when the
\* file exists and cannot be read; either way it returns no identity and
\* leaves the cache as it was.
C17_ErrorWhenMissingOrUnreadable ==
    [][(/\ last'.op = "compute_id"
        /\ src[last'.path].st \in {"missing", "unreadable"}) =>
           /\ src[last'.path].st = "missing" => last'.res = "FileNotFoundError"
           /\ src[last'.path].st = "unreadable" => last'.res = "PermissionError"
           /\ last'.digest = ""
           /\ fs' = fs]_vars

\* the call on a file that exists and cannot be read, the cache holding an
\* entry
C17_Witness ==
    /\ last.op = "compute_id"
    /\ src[last.path].st = "unreadable"
    /\ last.res = "PermissionError"
    /\ last.digest = ""
    /\ fs = OneEntry

\* C18: with one writer at a time, a save_chunks_and_embeddings(X, ...) that
\* returns replaces whatever was at the location of X (nothing, a directory
\* with an artifact missing or damaged, a complete entry): afterwards
\* cache_exists(X) holds, the three artifacts are the ones this call wrote
\* and load(X) returns the bundle of this call (as json and float32 store
\* it, see C4), nothing of what was there before.
C18_SuccessfulSaveReplaces ==
    (last.op = "save" /\ last.res = "ok") =>
        /\ last.was \in {"no cache_dir", "nothing", "incomplete", "complete"}
        /\ cache_exists(fs, last.id)
        /\ Entry(fs, last.id) =
              <<TRUE,
                [st |-> "ok", val |-> json_dump_list(last.chunks)],
                [st |-> "ok", val |-> np_array_float32(last.embeddings)],
                [st |-> "ok", val |-> json_roundtrip(last.metadata)]>>
        /\ LoadNow = Supplied(last)

\* a save over a directory that had lost an artifact has returned, and the
\* entry loads
C18_Witness ==
    /\ last.op = "save"
    /\ last.res = "ok"
    /\ last.was = "incomplete"
    /\ Len(last.chunks) = MaxLen
    /\ cache_exists(fs, last.id)
    /\ LoadNow = Supplied(last)

\* C19: two saves of one identity X running at the same time, with no lock:
\* once both have returned, if at least one of them returned without an
\* error then cache_exists(X) holds and load(X) returns the bundle of one
\* call that returned without an error -- not artifacts of both calls, and
\* not an entry the cleanup of the failed call removed.
BothReturned == \A p \in Procs : proc[p].pc \in {"ok", "failed"}

C19_RacingSavesLeaveOneBundle ==
    (BothReturned /\ \E p \in Procs : proc[p].pc = "ok") =>
        /\ cache_exists(fs, RaceId)
        /\ \E p \in Procs :
              /\ proc[p].pc = "ok"
              /\ load_chunks_and_embeddings(fs, RaceId) = Supplied(proc[p])

\* C20 as stated: in every state between two calls, reached by calls of the
\* cache alone (returned or failed), the identities get_cache_stats lists
\* are the identities for which cache_exists holds.
StatsAgree(f) ==
    get_cache_stats(f).document_ids = {d \in Ids : cache_exists(f, d)}

C21_ReadsLeaveTheTree ==
    [][last'.op \in {"exists", "load", "stats"} => fs' = fs]_vars

\* a load has met an entry whose chunks.json does not parse, returned
\* None, and the entry is still there as it was
C21_Witness ==
    /\ last.op = "load"
    /\ last.out = NoBundle
    /\ cache_exists(fs, last.id)
    /\ fs.chunks[last.id].st = "corrupt"
    /\ fs.emb[last.id].st = "ok"
    /\ fs.meta[last.id].st = "ok"

\* C22: clear_cache removes everything only when it is called without an
\* identity (None); called with a string, the empty string included, it
\* removes at most the directory of that identity: the entry of every other
\* identity and cache_dir are after the call what they were before.
C22_OnlyNoneEvictsAll ==
    [][(last'.op = "clear" /\ last'.id # NoneId) =>
          /\ fs'.root = fs.root
          /\ \A b \in Ids \ {last'.id} : Entry(fs', b) = Entry(fs, b)]_vars

====
